---- MODULE Spec2Model ----
(***************************************************************************)
(* Model of departures.py (cbruccoleri/bart_trains): get_departures, the   *)
(* callers do_tests and __main__, and the Python operations the function   *)
(* relies on (subscription, iteration, int()).                             *)
(*                                                                         *)
(* JSON / Python values are tagged records:                                *)
(*   [t |-> "null"]                  None                                  *)
(*   [t |-> "int",  v |-> n]         a JSON integer                        *)
(*   [t |-> "str",  v |-> <<c,..>>]  a string, as its characters           *)
(*   [t |-> "list", v |-> <<x,..>>]  a list                                *)
(*   [t |-> "obj",  v |-> <<<<k,x>>,..>>]  a dict, keys in insertion order *)
(***************************************************************************)
EXTENDS Integers, Sequences, FiniteSets, TLC

\* ------------------------------------------------------------------ bounds
\* groups per 'etd' list, entries per 'estimate' list, stations per document,
\* characters per enumerated 'minutes' string, calls per run
MaxGroups == 2
MaxEntries == 2
MaxStations == 2
MaxLen == 3
MaxCalls == 2

\* ------------------------------------------------------------ JSON values
Null == [t |-> "null"]
Num(n) == [t |-> "int", v |-> n]
Str(s) == [t |-> "str", v |-> s]
Lst(s) == [t |-> "list", v |-> s]
Obj(s) == [t |-> "obj", v |-> s]

K_root == <<"r", "o", "o", "t">>
K_station == <<"s", "t", "a", "t", "i", "o", "n">>
K_etd == <<"e", "t", "d">>
K_estimate == <<"e", "s", "t", "i", "m", "a", "t", "e">>
K_minutes == <<"m", "i", "n", "u", "t", "e", "s">>

\* ------------------------------------------------- results of an expression
Ok(x) == [ok |-> TRUE, v |-> x]
Err(e) == [ok |-> FALSE, exc |-> e]

\* x[k] for a string key k
Subscript(x, k) ==
    IF x.t = "obj"
    THEN IF \E i \in 1..Len(x.v) : x.v[i][1] = k
         THEN Ok(x.v[CHOOSE i \in 1..Len(x.v) : x.v[i][1] = k][2])
         ELSE Err("KeyError")
    ELSE Err("TypeError")

\* x[n] for an integer n >= 0 (the code uses n = 0)
Index(x, n) ==
    CASE x.t = "list" -> IF n + 1 <= Len(x.v) THEN Ok(x.v[n + 1]) ELSE Err("IndexError")
      [] x.t = "str" -> IF n + 1 <= Len(x.v) THEN Ok(Str(<<x.v[n + 1]>>)) ELSE Err("IndexError")
      [] x.t = "obj" -> Err("KeyError")
      [] OTHER -> Err("TypeError")

\* the items `for _ in x` visits
Iter(x) ==
    CASE x.t = "list" -> Ok(x.v)
      [] x.t = "str" -> Ok([i \in 1..Len(x.v) |-> Str(<<x.v[i]>>)])
      [] x.t = "obj" -> Ok([i \in 1..Len(x.v) |-> Str(x.v[i][1])])
      [] OTHER -> Err("TypeError")

\* ------------------------------------------------------------------ int()
DigitChars == {"0", "1", "2", "3", "4", "5", "6", "7", "8", "9"}

DigitVal(c) ==
    CASE c = "0" -> 0 [] c = "1" -> 1 [] c = "2" -> 2 [] c = "3" -> 3
      [] c = "4" -> 4 [] c = "5" -> 5 [] c = "6" -> 6 [] c = "7" -> 7
      [] c = "8" -> 8 [] c = "9" -> 9

RECURSIVE SkipSpaces(_, _)
SkipSpaces(s, i) ==
    IF i <= Len(s) /\ s[i] = " " THEN SkipSpaces(s, i + 1) ELSE i

AccumulateOctal(acc, d) == acc * 8 + d

Accumulate(acc, d) == acc * 10 + d

\* the digits from position i on: decimal digits, single underscores between them
RECURSIVE ParseDigits(_, _, _, _)
ParseDigits(s, i, acc, prev) ==
    IF i <= Len(s) /\ s[i] \in DigitChars
    THEN ParseDigits(s, i + 1, Accumulate(acc, DigitVal(s[i])), "digit")
    ELSE IF i <= Len(s) /\ s[i] = "_"
         THEN IF prev = "digit"
              THEN ParseDigits(s, i + 1, acc, "underscore")
              ELSE [ok |-> FALSE, v |-> 0, next |-> i]
         ELSE [ok |-> prev = "digit", v |-> acc, next |-> i]

\* int(s) for a string s, base 10
ParseInt(s) ==
    LET i1 == SkipSpaces(s, 1)
        signed == i1 <= Len(s) /\ s[i1] \in {"+", "-"}
        i2 == IF signed THEN i1 + 1 ELSE i1
        d == ParseDigits(s, i2, 0, "start")
        i3 == SkipSpaces(s, d.next)
    IN  IF d.ok /\ i3 = Len(s) + 1
        THEN Ok(IF signed /\ s[i1] = "-" THEN 0 - d.v ELSE d.v)
        ELSE Err("ValueError")

\* int(x)
PyInt(x) ==
    CASE x.t = "str" -> ParseInt(x.v)
      [] x.t = "int" -> Ok(x.v)
      [] OTHER -> Err("TypeError")

\* --------------------------------------------------------- get_departures
NoTestcase == Null

NeedsRequestAlways(tc) == TRUE

\* `if testcase is None`
NeedsRequest(tc) == tc = NoTestcase

\* reqParams
ReqParams(origin, direction) ==
    [cmd |-> "etd", orig |-> origin, dir |-> direction,
     key |-> "MW9S-E7SL-26DU-VV8V", json |-> "y"]

IsRequestExceptionNoHTTP(e) ==
    e \in {"ConnectionError", "Timeout", "RequestsJSONDecodeError"}

\* `except requests.exceptions.RequestException`: the classes it catches
IsRequestException(e) ==
    e \in {"ConnectionError", "Timeout", "HTTPError", "RequestsJSONDecodeError"}

NoDepList == Null

\* `depList = []` of the inner handler
EmptyDepList == Lst(<<>>)

LastStation(stations) ==
    IF stations.t \in {"list", "str"} /\ Len(stations.v) > 0
    THEN Index(stations, Len(stations.v) - 1)
    ELSE Index(stations, 0)

\* `[0]` of resp['root']['station'][0]
FirstStation(stations) == Index(stations, 0)

\* try: depList = resp['root']['station'][0]['etd'] / except: depList = []
NavigateDepList(r) ==
    LET a == Subscript(r, K_root)
        b == IF a.ok THEN Subscript(a.v, K_station) ELSE a
        c == IF b.ok THEN FirstStation(b.v) ELSE b
        d == IF c.ok THEN Subscript(c.v, K_etd) ELSE c
    IN  IF d.ok THEN d.v ELSE EmptyDepList

\* `m = 0` of the ValueError handler
ValueErrorMinutes == 0

MinutesUnhandled(r) == r

\* try: m = int(...) / except ValueError: m = 0, applied to the result of int(...)
MinutesOrDefault(r) ==
    IF ~r.ok /\ r.exc = "ValueError" THEN Ok(ValueErrorMinutes) ELSE r

ListPrepend(l, m) == <<m>> \o l

\* minutesList.append(m)
ListAppend(l, m) == Append(l, m)

SharedListId(h) == 1

\* `minutesList = []` builds a new list object: its identity in the heap
NewListId(h) == Cardinality(DOMAIN h) + 1

\* ------------------------------------------------------- input documents
Chars(str) ==
    CASE str = "3" -> <<"3">>
      [] str = "7" -> <<"7">>
      [] str = "12" -> <<"1", "2">>
      [] str = "x" -> <<"x">>
      [] str = "" -> <<>>
      [] str = "Leaving" -> <<"L", "e", "a", "v", "i", "n", "g">>

Entry(m) == Obj(<< <<K_minutes, m>> >>)
Group(es) == Obj(<< <<K_estimate, Lst(es)>> >>)
Station(gs) == Obj(<< <<K_etd, Lst(gs)>> >>)
Root(stations) == Obj(<< <<K_root, Obj(<< <<K_station, stations>> >>)>> >>)
Doc(sts) == Root(Lst(sts))

SeqsUpTo(S, n) == UNION {[1..k -> S] : k \in 0..n}

\* the characters the enumerated 'minutes' strings are made of
Alphabet == {"1", "2", "L", " ", "-", "_", "."}
AllStrings == SeqsUpTo(Alphabet, MaxLen)

E3 == Entry(Str(Chars("3")))
E7 == Entry(Str(Chars("7")))
ELeaving == Entry(Str(Chars("Leaving")))
GoodGroup == Group(<<E3>>)

\* every document of the schema, up to the bounds, over two minute strings
SchemaDocs ==
    {Doc(<<Station(gs)>>) :
        gs \in SeqsUpTo({Group(es) : es \in SeqsUpTo({E3, ELeaving}, MaxEntries)},
                        MaxGroups)}

\* the example of the specification: groups ["3","7"] and ["Leaving"]
ExampleDoc == Doc(<<Station(<<Group(<<E3, E7>>), Group(<<ELeaving>>)>>)>>)

\* one group whose first entry holds an arbitrary string, followed by "7"
StringDocs == {Doc(<<Station(<<Group(<<Entry(Str(s)), E7>>)>>)>>) : s \in AllStrings}

\* entries whose 'minutes' is not a string, or that are no entry at all
OddEntries ==
    {Entry(Null), Entry(Lst(<<>>)), Entry(Obj(<<>>)), Entry(Num(5)), Obj(<<>>),
     Null, Str(Chars("x")), Lst(<<>>)}
OddEntryDocs ==
    {Doc(<<Station(<<Group(es)>>)>>) :
        es \in UNION {{<<e>>, <<e, E7>>, <<E7, e>>} : e \in OddEntries}}

\* groups that are no group of the schema
OddGroups ==
    {Obj(<<>>), Null, Str(Chars("x")), Lst(<<>>),
     Obj(<< <<K_estimate, Null>> >>), Obj(<< <<K_estimate, Obj(<<>>)>> >>),
     Obj(<< <<K_estimate, Obj(<< <<K_minutes, Str(Chars("3"))>> >>)>> >>),
     Obj(<< <<K_estimate, Str(Chars("x"))>> >>), Obj(<< <<K_estimate, Str(Chars(""))>> >>)}
OddGroupDocs ==
    {Doc(<<Station(gs)>>) :
        gs \in UNION {{<<g>>, <<g, GoodGroup>>, <<GoodGroup, g>>} : g \in OddGroups}}

\* an 'etd' that is no list
OddEtds ==
    {Null, Obj(<<>>), Obj(<< <<K_estimate, Lst(<<E3>>)>> >>), Str(Chars("")),
     Str(Chars("x")), Num(5)}
OddEtdDocs == {Doc(<< Obj(<< <<K_etd, x>> >>) >>) : x \in OddEtds}

\* the path to 'etd' is missing or broken
PathDocs ==
    {Obj(<<>>), Lst(<<>>), Str(Chars("x")), Obj(<< <<K_root, Null>> >>),
     Obj(<< <<K_root, Obj(<<>>)>> >>), Obj(<< <<K_station, Lst(<<Station(<<GoodGroup>>)>>)>> >>),
     Root(Null), Root(Lst(<<>>)), Root(Obj(<<>>)), Root(Str(Chars("x"))),
     Root(Station(<<GoodGroup>>)),
     Doc(<<Obj(<<>>)>>), Doc(<<Null>>), Doc(<<Lst(<<>>)>>),
     Doc(<<Obj(<< <<K_estimate, Lst(<<E3>>)>> >>)>>)}

\* several stations
SampleStations ==
    {Station(<<GoodGroup>>), Station(<<Group(<<ELeaving, E7>>)>>), Obj(<<>>)}
MultiStationDocs ==
    {Doc(sts) : sts \in (SeqsUpTo(SampleStations, MaxStations) \ SeqsUpTo(SampleStations, 1))}

Docs ==
    SchemaDocs \cup {ExampleDoc} \cup StringDocs \cup OddEntryDocs \cup OddGroupDocs
        \cup OddEtdDocs \cup PathDocs \cup MultiStationDocs

\* the stations of a document, when its path to them is there
StationsOf(doc) ==
    LET a == Subscript(doc, K_root)
        b == IF a.ok THEN Subscript(a.v, K_station) ELSE a
    IN  IF b.ok /\ b.v.t = "list" THEN b.v.v ELSE <<>>

\* the same document, cut down to its first station
Truncated(doc) ==
    IF Len(StationsOf(doc)) > 1 THEN Doc(<<StationsOf(doc)[1]>>) ELSE doc

\* bodies a live response may carry
LiveBodies == {ExampleDoc, Obj(<< <<K_root, Obj(<<>>)>> >>), Doc(<<Station(<<Obj(<<>>)>>)>>)}

Origins == {"PLZA", "RICH"}
Directions == {"s", "n"}

\* what the network does with a request: the step that raises, and what
NoNet == [at |-> "none", exc |-> "", body |-> Null]
NetOutcomes ==
    {[at |-> "get", exc |-> e, body |-> Null] : e \in {"ConnectionError", "Timeout"}}
        \cup {[at |-> "raise_for_status", exc |-> "HTTPError", body |-> Null]}
        \cup {[at |-> "json", exc |-> e, body |-> Null] :
                 e \in {"RequestsJSONDecodeError", "ValueError"}}
        \cup {[at |-> "ok", exc |-> "", body |-> b] : b \in LiveBodies}

\* ------------------------------------------------------------------ state
VARIABLES
    fixture,      \* jsonobj of do_tests; None when the run is a live query
    pc,           \* where get_departures stands: idle, navigate, outer, inner, except, crashed
    calls,        \* calls made so far
    testcase,     \* the testcase argument of the current (or last) call
    args,         \* its origin and direction arguments
    net,          \* what the network did with this call's request
    sent,         \* the requests.get calls of this call, as their params
    resp, depList, minutesList, gi, estimate, ei,   \* locals of get_departures
    exc,          \* the exception raised in this call, "" when none
    outcome,      \* how the call ended: a list (by identity), None, or an exception
    heap,         \* the list objects built so far: identity -> items
    visited,      \* the steps of get_departures this call has run
    history       \* the calls that returned: argument and outcome

vars == <<fixture, pc, calls, testcase, args, net, sent, resp, depList, minutesList, gi,
          estimate, ei, exc, outcome, heap, visited, history>>

Unbound == [t |-> "unbound"]
Pending == [kind |-> "pending"]
NoneResult == [kind |-> "none"]
ListResult(id) == [kind |-> "list", id |-> id]
Raised(e) == [kind |-> "raise", exc |-> e]

Init ==
    /\ fixture \in Docs \cup {NoTestcase}
    /\ pc = "idle"
    /\ calls = 0
    /\ testcase = NoTestcase
    /\ args = [origin |-> "RICH", direction |-> "s"]
    /\ net = NoNet
    /\ sent = <<>>
    /\ resp = Unbound
    /\ depList = Unbound
    /\ minutesList = 0
    /\ gi = 0
    /\ estimate = <<>>
    /\ ei = 0
    /\ exc = ""
    /\ outcome = Pending
    /\ heap = <<>>
    /\ visited = {}
    /\ history = <<>>

\* the arguments the callers pass: do_tests its fixture, __main__ none
Testcases == IF fixture = NoTestcase THEN {NoTestcase} ELSE {fixture, Truncated(fixture)}

\* do_tests passes origin='PLZA' and the default direction; a live query any
OriginsFor(tc) == IF tc = NoTestcase THEN Origins ELSE {"PLZA"}
DirectionsFor(tc) == IF tc = NoTestcase THEN Directions ELSE {"s"}

\* an exception e leaves the outer try: caught at `except RequestException`, or not
Raise(e) ==
    /\ exc' = e
    /\ IF IsRequestException(e)
       THEN pc' = "except" /\ outcome' = Pending
       ELSE pc' = "crashed" /\ outcome' = Raised(e)

\* lines 60-85: the call, the request when there is no testcase, resp
Call(tc, origin, direction, n) ==
    /\ pc = "idle"
    /\ calls < MaxCalls
    /\ calls' = calls + 1
    /\ testcase' = tc
    /\ args' = [origin |-> origin, direction |-> direction]
    /\ depList' = Unbound
    /\ minutesList' = 0
    /\ gi' = 0
    /\ estimate' = <<>>
    /\ ei' = 0
    /\ IF NeedsRequest(tc)
       THEN /\ net' = n
            /\ sent' = <<ReqParams(origin, direction)>>
            /\ visited' = CASE n.at = "get" -> {"get"}
                             [] n.at = "raise_for_status" -> {"get", "raise_for_status"}
                             [] OTHER -> {"get", "raise_for_status", "json"}
            /\ IF n.at = "ok"
               THEN resp' = n.body /\ pc' = "navigate" /\ exc' = "" /\ outcome' = Pending
               ELSE resp' = Unbound /\ Raise(n.exc)
       ELSE /\ net' = NoNet
            /\ sent' = <<>>
            /\ visited' = {}
            /\ resp' = tc
            /\ pc' = "navigate"
            /\ exc' = ""
            /\ outcome' = Pending
    /\ UNCHANGED <<fixture, heap, history>>

\* lines 89-94: the path to the groups, and a new minutesList
Navigate ==
    /\ pc = "navigate"
    /\ depList' = NavigateDepList(resp)
    /\ minutesList' = NewListId(heap)
    /\ heap' = (NewListId(heap) :> <<>>) @@ heap
    /\ gi' = 1
    /\ pc' = "outer"
    /\ visited' = visited \cup {"navigate"}
    /\ UNCHANGED <<fixture, calls, testcase, args, net, sent, resp, estimate, ei, exc,
                   outcome, history>>

\* lines 95-96: `for dep in depList`, then the start of `for depData in dep['estimate']`
ForDep ==
    /\ pc = "outer"
    /\ Iter(depList).ok => gi <= Len(Iter(depList).v)
    /\ LET deps == Iter(depList)
           est == IF deps.ok THEN Subscript(deps.v[gi], K_estimate) ELSE deps
           items == IF est.ok THEN Iter(est.v) ELSE est
       IN  IF items.ok
           THEN /\ estimate' = items.v
                /\ ei' = 1
                /\ pc' = "inner"
                /\ UNCHANGED <<exc, outcome>>
           ELSE /\ Raise(items.exc)
                /\ UNCHANGED <<estimate, ei>>
    /\ visited' = visited \cup {"loop"}
    /\ UNCHANGED <<fixture, calls, testcase, args, net, sent, resp, depList, minutesList, gi,
                   heap, history>>

\* lines 96-102: one entry: m = int(depData['minutes']), or 0; append
ForDepData ==
    /\ pc = "inner"
    /\ IF ei > Len(estimate)
       THEN /\ gi' = gi + 1
            /\ pc' = "outer"
            /\ UNCHANGED <<ei, heap, exc, outcome>>
       ELSE LET minutes == Subscript(estimate[ei], K_minutes)
                m == IF minutes.ok THEN MinutesOrDefault(PyInt(minutes.v)) ELSE minutes
            IN  IF m.ok
                THEN /\ heap' = [heap EXCEPT ![minutesList] = ListAppend(@, m.v)]
                     /\ ei' = ei + 1
                     /\ UNCHANGED <<gi, pc, exc, outcome>>
                ELSE /\ Raise(m.exc)
                     /\ UNCHANGED <<gi, ei, heap>>
    /\ UNCHANGED <<fixture, calls, testcase, args, net, sent, resp, depList, minutesList,
                   estimate, visited, history>>

\* line 104: return minutesList
Return ==
    /\ pc = "outer"
    /\ Iter(depList).ok
    /\ gi > Len(Iter(depList).v)
    /\ outcome' = ListResult(minutesList)
    /\ history' = Append(history, [arg |-> testcase, out |-> ListResult(minutesList)])
    /\ pc' = "idle"
    /\ visited' = visited \cup {"return"}
    /\ UNCHANGED <<fixture, calls, testcase, args, net, sent, resp, depList, minutesList, gi,
                   estimate, ei, exc, heap>>

\* lines 105-110: the request failed: report it, return None
Except ==
    /\ pc = "except"
    /\ outcome' = NoneResult
    /\ history' = Append(history, [arg |-> testcase, out |-> NoneResult])
    /\ pc' = "idle"
    /\ visited' = visited \cup {"except"}
    /\ UNCHANGED <<fixture, calls, testcase, args, net, sent, resp, depList, minutesList, gi,
                   estimate, ei, exc, heap>>

Next ==
    \/ \E tc \in Testcases, n \in NetOutcomes :
          \E o \in OriginsFor(tc), d \in DirectionsFor(tc) : Call(tc, o, d, n)
    \/ Navigate
    \/ ForDep
    \/ ForDepData
    \/ Return
    \/ Except

Spec == Init /\ [][Next]_vars

\* ------------------------------------------------- shapes of a document
HasField(x, k) == x.t = "obj" /\ \E i \in 1..Len(x.v) : x.v[i][1] = k
Field(x, k) == x.v[CHOOSE i \in 1..Len(x.v) : x.v[i][1] = k][2]

\* root.station[0].etd is there
PathThere(doc) ==
    /\ HasField(doc, K_root)
    /\ HasField(Field(doc, K_root), K_station)
    /\ Field(Field(doc, K_root), K_station).t = "list"
    /\ Len(Field(Field(doc, K_root), K_station).v) > 0
    /\ HasField(Field(Field(doc, K_root), K_station).v[1], K_etd)

EtdOf(doc) == Field(Field(Field(doc, K_root), K_station).v[1], K_etd)

\* ... and is a list of groups that each hold an 'estimate' list
GroupsThere(doc) ==
    /\ PathThere(doc)
    /\ EtdOf(doc).t = "list"
    /\ \A g \in 1..Len(EtdOf(doc).v) :
          /\ HasField(EtdOf(doc).v[g], K_estimate)
          /\ Field(EtdOf(doc).v[g], K_estimate).t = "list"

RECURSIVE EntriesFrom(_, _)
EntriesFrom(groups, g) ==
    IF g > Len(groups) THEN <<>>
    ELSE Field(groups[g], K_estimate).v \o EntriesFrom(groups, g + 1)

\* the estimate entries in group-then-entry order
EntriesOf(doc) == EntriesFrom(EtdOf(doc).v, 1)

\* ... whose entries are objects
EntriesThere(doc) ==
    /\ GroupsThere(doc)
    /\ \A k \in 1..Len(EntriesOf(doc)) : EntriesOf(doc)[k].t = "obj"

\* ... that each have a 'minutes' string
WellFormed(doc) ==
    /\ EntriesThere(doc)
    /\ \A k \in 1..Len(EntriesOf(doc)) :
          /\ HasField(EntriesOf(doc)[k], K_minutes)
          /\ Field(EntriesOf(doc)[k], K_minutes).t = "str"

MinutesAt(doc, k) == Field(EntriesOf(doc)[k], K_minutes).v

\* ------------------------------------------------ numerals, declaratively
AllDigits(s, a, b) == \A i \in a..b : s[i] \in DigitChars

\* [sign] digits
PlainNumber(s) ==
    \/ Len(s) >= 1 /\ AllDigits(s, 1, Len(s))
    \/ Len(s) >= 2 /\ s[1] \in {"+", "-"} /\ AllDigits(s, 2, Len(s))

RECURSIVE Pow10(_)
Pow10(n) == IF n = 0 THEN 1 ELSE 10 * Pow10(n - 1)

RECURSIVE PlaceSum(_, _)
PlaceSum(s, i) ==
    IF i > Len(s) THEN 0
    ELSE (IF s[i] \in DigitChars THEN DigitVal(s[i]) * Pow10(Len(s) - i) ELSE 0)
             + PlaceSum(s, i + 1)

\* the integer a plain number denotes
Denotes(s) == IF s[1] = "-" THEN 0 - PlaceSum(s, 1) ELSE PlaceSum(s, 1)

\* blanks, [sign], digits with single underscores between them, blanks
IntegerNumeral(s) ==
    \E a \in 1..Len(s), b \in 1..Len(s) :
        /\ a <= b
        /\ \A i \in 1..(a - 1) : s[i] = " "
        /\ \A i \in (b + 1)..Len(s) : s[i] = " "
        /\ s[b] \in DigitChars
        /\ LET c == IF s[a] \in {"+", "-"} THEN a + 1 ELSE a
           IN  /\ c <= b
               /\ s[c] \in DigitChars
               /\ \A i \in c..b : s[i] \in DigitChars \cup {"_"}
               /\ \A i \in c..(b - 1) : ~(s[i] = "_" /\ s[i + 1] = "_")

\* a string that cannot be read as an integer
NonNumeric(s) == ~IntegerNumeral(s)

\* ------------------------------------------------------------- the claims
\* a call has ended, by return or by an exception leaving get_departures
Ended == calls > 0 /\ pc \in {"idle", "crashed"}
FixtureCall == testcase # NoTestcase
Returned == IF outcome.kind = "list" THEN heap[outcome.id] ELSE <<>>

\* C1: for a well-formed fixture the call returns a list with one element per
\* estimate entry, in group-then-entry order: the k-th element is the number the
\* k-th entry's string denotes, or 0 when the string is no number.
C1_CountAndOrder ==
    (Ended /\ FixtureCall /\ WellFormed(testcase)) =>
        /\ pc = "idle"
        /\ outcome.kind = "list"
        /\ Len(Returned) = Len(EntriesOf(testcase))
        /\ \A k \in 1..Len(EntriesOf(testcase)) :
              /\ PlainNumber(MinutesAt(testcase, k)) =>
                     Returned[k] = Denotes(MinutesAt(testcase, k))
              /\ NonNumeric(MinutesAt(testcase, k)) => Returned[k] = 0

C1_Witness ==
    /\ pc = "idle" /\ calls > 0
    /\ testcase = ExampleDoc
    /\ outcome.kind = "list"
    /\ Returned = <<3, 7, 0>>

\* C2: when the live request fails at transport level (requests.get raises a
\* connection error or a timeout, or raise_for_status raises for the status), the
\* call ends by returning None: no list, no exception out of get_departures, and
\* neither r.json(), the navigation nor the loops run.
TransportFailed == calls > 0 /\ net.at \in {"get", "raise_for_status"}

C2_TransportFailureGivesNone ==
    TransportFailed =>
        /\ pc \in {"except", "idle"}
        /\ pc = "idle" => outcome = NoneResult
        /\ visited \cap {"json", "navigate", "loop", "return"} = {}
        /\ resp = Unbound
        /\ minutesList = 0

C2_Witness ==
    /\ pc = "idle"
    /\ net.at = "raise_for_status" /\ net.exc = "HTTPError"
    /\ outcome = NoneResult
    /\ "except" \in visited

\* C3: for a fixture without the path root.station[0].etd the call returns an
\* empty list: not None, and no exception.
C3_MissingPathGivesEmptyList ==
    (Ended /\ FixtureCall /\ ~PathThere(testcase)) =>
        /\ pc = "idle"
        /\ outcome.kind = "list"
        /\ Returned = <<>>

C3_Witness ==
    /\ pc = "idle" /\ calls > 0
    /\ testcase = Obj(<< <<K_root, Obj(<<>>)>> >>)
    /\ outcome.kind = "list"
    /\ Returned = <<>>

\* C4: in a well-formed fixture, every entry whose 'minutes' string cannot be read
\* as an integer gives exactly 0 at its position, and every entry gives an element.
C4_NonNumericGivesZero ==
    (Ended /\ FixtureCall /\ WellFormed(testcase)) =>
        /\ outcome.kind = "list"
        /\ Len(Returned) = Len(EntriesOf(testcase))
        /\ \A k \in 1..Len(EntriesOf(testcase)) :
              NonNumeric(MinutesAt(testcase, k)) => Returned[k] = 0

C4_Witness ==
    /\ pc = "idle" /\ calls > 0
    /\ WellFormed(testcase)
    /\ Len(EntriesOf(testcase)) = 2
    /\ MinutesAt(testcase, 1) = <<"1", "L">>
    /\ outcome.kind = "list"
    /\ Returned = <<0, 7>>

\* C5: in a well-formed fixture, every entry whose 'minutes' string is a plain
\* number (digits, with an optional sign) gives the integer it denotes.
C5_NumericGivesItsInteger ==
    (Ended /\ FixtureCall /\ WellFormed(testcase)) =>
        /\ outcome.kind = "list"
        /\ \A k \in 1..Len(EntriesOf(testcase)) :
              PlainNumber(MinutesAt(testcase, k)) =>
                  /\ k <= Len(Returned)
                  /\ Returned[k] = Denotes(MinutesAt(testcase, k))

C5_Witness ==
    /\ pc = "idle" /\ calls > 0
    /\ WellFormed(testcase)
    /\ Len(EntriesOf(testcase)) = 2
    /\ MinutesAt(testcase, 1) = <<"1", "2">>
    /\ outcome.kind = "list"
    /\ Returned[1] = 12

\* C6: for a fixture whose shape deviates from the schema anywhere on the path to
\* the estimate entries, the call returns an empty list and raises nothing.
C6_MalformedStructureGivesEmptyList ==
    (Ended /\ FixtureCall /\ ~GroupsThere(testcase)) =>
        /\ pc = "idle"
        /\ outcome.kind = "list"
        /\ Returned = <<>>

\* an entry whose 'minutes' cannot be read as an integer, whatever its form
Unreadable(entry) ==
    \/ ~HasField(entry, K_minutes)
    \/ Field(entry, K_minutes).t \in {"null", "list", "obj"}
    \/ Field(entry, K_minutes).t = "str" /\ NonNumeric(Field(entry, K_minutes).v)

\* C7: every entry whose 'minutes' cannot be read as an integer (non-numeric
\* string, null, list, object, or no 'minutes' key) gives 0 at its position, and
\* no exception leaves the call.
C7_UnreadableMinutesGiveZero ==
    (Ended /\ FixtureCall /\ EntriesThere(testcase)) =>
        /\ pc = "idle"
        /\ outcome.kind = "list"
        /\ Len(Returned) = Len(EntriesOf(testcase))
        /\ \A k \in 1..Len(EntriesOf(testcase)) :
              Unreadable(EntriesOf(testcase)[k]) => Returned[k] = 0

C9_OneRequestOrNone ==
    calls > 0 =>
        IF testcase = NoTestcase
        THEN sent = << [cmd |-> "etd", orig |-> args.origin, dir |-> args.direction,
                        key |-> "MW9S-E7SL-26DU-VV8V", json |-> "y"] >>
        ELSE sent = <<>>

C9_Witness ==
    /\ pc = "idle" /\ calls > 0
    /\ testcase = NoTestcase
    /\ net.at = "get"
    /\ outcome = NoneResult
    /\ Len(sent) = 1 /\ sent[1].orig = "RICH" /\ sent[1].dir = "n"

\* C10: for a document with several stations the call returns what it returns for
\* the document cut down to its first station.
C10_OnlyFirstStation ==
    \A i \in 1..Len(history), j \in 1..Len(history) :
        (/\ Len(StationsOf(fixture)) > 1
         /\ history[i].arg = fixture
         /\ history[j].arg = Truncated(fixture)) =>
            /\ history[i].out.kind = history[j].out.kind
            /\ history[i].out.kind = "list" =>
                  heap[history[i].out.id] = heap[history[j].out.id]

C10_Witness ==
    /\ fixture = Doc(<<Station(<<GoodGroup>>), Station(<<Group(<<ELeaving, E7>>)>>)>>)
    /\ Len(history) = 2
    /\ history[1].arg = fixture /\ history[2].arg = Truncated(fixture)
    /\ history[1].out.kind = "list" /\ history[2].out.kind = "list"
    /\ heap[history[1].out.id] = <<3>>
    /\ heap[history[2].out.id] = <<3>>

====
